---- MODULE Spec2Model ----
(***************************************************************************)
(* Model of the non-empty crate (src/src/lib.rs): the tuple struct         *)
(* NonEmpty<T>(Vec<T>) and its two checked constructors, from_vec and      *)
(* from_slice, over an explicit heap of buffers so that ownership,         *)
(* aliasing, allocation and element duplication are observable.            *)
(***************************************************************************)
EXTENDS Integers, Sequences, FiniteSets, Bags, TLC

\* Longest input (Vec or slice) a caller builds.
MaxLen == 2

\* Total number of cells the heap can hold; an allocation that does not fit fails
\* (out of memory, which is outside the crate's design).
HeapCells == 4

\* The element type T: two distinguishable values.
T == {"a", "b"}

\* The address an unallocated (capacity 0) Vec carries.
Dangling == 0

\* The heap addresses the allocator hands out: interchangeable names, enough for a
\* source buffer and two duplicates of it to be live together.
Ptrs == {1, 2, 3}

\* heap:       address -> buffer (live flag, allocated size, initialised cells)
\* vecs:       the Vec<T> values the caller owns
\* nonEmpties: the NonEmpty<T> values the caller holds (a bag: one copy per instance)
\* call:       the constructor call that has just returned, "idle" otherwise
VARIABLES heap, vecs, nonEmpties, call

vars == <<heap, vecs, nonEmpties, call>>

----------------------------------------------------------------------------
(* Heap and std::vec::Vec                                                  *)

Free == [live |-> FALSE, size |-> 0, cells |-> <<>>]

Block(size, cells) == [live |-> TRUE, size |-> size, cells |-> cells]

LivePtrs(h) == {p \in Ptrs : h[p].live}

RECURSIVE CellsOf(_, _)
CellsOf(h, ps) ==
  IF ps = {} THEN 0
  ELSE LET p == CHOOSE q \in ps : TRUE IN h[p].size + CellsOf(h, ps \ {p})

UsedCells(h) == CellsOf(h, Ptrs)

\* The allocator: any address that is not live may be returned, as long as the
\* request fits in the heap.
alloc(h, size) ==
  IF UsedCells(h) + size > HeapCells THEN {}
  ELSE {[ptr |-> p, heap |-> [h EXCEPT ![p] = Block(size, <<>>)]] : p \in Ptrs \ LivePtrs(h)}

\* A Vec<T> is (ptr, cap, len); its elements are the first len cells of its buffer.
MkVec(ptr, cap, len) == [ptr |-> ptr, cap |-> cap, len |-> len]

\* A &[T] is an address (buffer, offset) and a length.
MkSlice(ptr, off, len) == [ptr |-> ptr, off |-> off, len |-> len]

\* The views &vec[lo..hi] of a Vec.
ViewsOf(vec) ==
  {MkSlice(vec.ptr, lo, hi - lo) : <<lo, hi>> \in {x \in (0..vec.len) \X (0..vec.len) : x[1] <= x[2]}}

VecElems(h, vec) == [i \in 1..vec.len |-> h[vec.ptr].cells[i]]

SliceElems(h, slice) == [i \in 1..slice.len |-> h[slice.ptr].cells[slice.off + i]]

\* Dropping a Vec releases its buffer, if it has one.
drop(h, vec) == IF vec.cap = 0 THEN h ELSE [h EXCEPT ![vec.ptr] = Free]

is_empty(v) == v.len = 0

\* T: Clone -- a duplicate of the element's value.
clone(x) == x

\* Effects of a call: the heap it leaves, the allocations and clones it made.
Fx(h) == [heap |-> h, allocs |-> 0, clones |-> 0]

\* A to_owned that fills the new buffer back to front.
to_owned_reversed(m, slice) ==
  {[vec |-> MkVec(a.ptr, slice.len, slice.len),
    m   |-> [heap   |-> [a.heap EXCEPT ![a.ptr].cells =
                           [i \in 1..slice.len |->
                              clone(SliceElems(m.heap, slice)[slice.len + 1 - i])]],
             allocs |-> m.allocs + 1,
             clones |-> m.clones + slice.len]]
   : a \in alloc(m.heap, slice.len)}

\* A to_owned that hands back the viewed buffer itself instead of a duplicate.
to_owned_alias(m, slice) ==
  {[vec |-> MkVec(slice.ptr, slice.len, slice.len), m |-> m]}

\* slice.to_owned(): a fresh buffer of exactly slice.len cells, each element cloned in
\* order. An empty slice gives an unallocated Vec.
to_owned(m, slice) ==
  IF slice.len = 0
  THEN {[vec |-> MkVec(Dangling, 0, 0), m |-> m]}
  ELSE {[vec |-> MkVec(a.ptr, slice.len, slice.len),
         m   |-> [heap   |-> [a.heap EXCEPT ![a.ptr].cells =
                                [i \in 1..slice.len |-> clone(SliceElems(m.heap, slice)[i])]],
                  allocs |-> m.allocs + 1,
                  clones |-> m.clones + slice.len]]
        : a \in alloc(m.heap, slice.len)}

----------------------------------------------------------------------------
(* The crate                                                               *)

None == [tag |-> "None", val |-> <<>>]

Some(x) == [tag |-> "Some", val |-> <<x>>]

\* A NonEmpty that carries its length next to the Vec.
NonEmpty_with_len(vec) == <<vec, vec.len>>

\* pub struct NonEmpty<T>(Vec<T>): a tuple struct with the one field .0
NonEmpty(vec) == <<vec>>

\* A from_vec without the emptiness check.
from_vec_unchecked(m, vec) == {[ret |-> Some(NonEmpty(vec)), m |-> m]}

\* A from_vec that duplicates the input into a new buffer and drops the input.
from_vec_copying(m, vec) ==
  IF is_empty(vec)
  THEN {[ret |-> None, m |-> [m EXCEPT !.heap = drop(m.heap, vec)]]}
  ELSE {[ret |-> Some(NonEmpty(o.vec)), m |-> [o.m EXCEPT !.heap = drop(o.m.heap, vec)]]
        : o \in to_owned(m, MkSlice(vec.ptr, 0, vec.len))}

\* A from_vec that forgets a rejected input without releasing it.
from_vec_leaking(m, vec) ==
  IF is_empty(vec)
  THEN {[ret |-> None, m |-> m]}
  ELSE {[ret |-> Some(NonEmpty(vec)), m |-> m]}

\* A from_vec that tests the capacity where it should test the length.
from_vec_cap_check(m, vec) ==
  IF vec.cap = 0
  THEN {[ret |-> None, m |-> [m EXCEPT !.heap = drop(m.heap, vec)]]}
  ELSE {[ret |-> Some(NonEmpty(vec)), m |-> m]}

\* NonEmpty::from_vec: the possible outcomes (result, effects) of a call.
from_vec(m, vec) ==
  IF is_empty(vec)
  THEN {[ret |-> None, m |-> [m EXCEPT !.heap = drop(m.heap, vec)]]}
  ELSE {[ret |-> Some(NonEmpty(vec)), m |-> m]}

\* A from_slice without the emptiness check.
from_slice_unchecked(m, slice) ==
  {[ret |-> Some(NonEmpty(o.vec)), m |-> o.m] : o \in to_owned(m, slice)}

\* A from_slice that wraps the viewed storage instead of duplicating it.
from_slice_view(m, slice) ==
  IF is_empty(slice)
  THEN {[ret |-> None, m |-> m]}
  ELSE {[ret |-> Some(NonEmpty(MkVec(slice.ptr, slice.len, slice.len))), m |-> m]}

\* A from_slice that duplicates the duplicate (slice.to_owned().clone()) and drops
\* the first one.
from_slice_double_copy(m, slice) ==
  IF is_empty(slice)
  THEN {[ret |-> None, m |-> m]}
  ELSE {[ret |-> Some(NonEmpty(o.vec)),
         m   |-> [o.m EXCEPT !.allocs = @ + 1, !.clones = @ + slice.len]]
        : o \in to_owned(m, slice)}

\* NonEmpty::from_slice: the possible outcomes (result, effects) of a call.
from_slice(m, slice) ==
  IF is_empty(slice)
  THEN {[ret |-> None, m |-> m]}
  ELSE {[ret |-> Some(NonEmpty(o.vec)), m |-> o.m] : o \in to_owned(m, slice)}

----------------------------------------------------------------------------
(* State machine: a caller that builds inputs, calls the constructors,     *)
(* writes to its own storage and drops what it owns.                       *)

NoCall ==
  [fn |-> "idle", arg |-> MkSlice(Dangling, 0, 0), cap |-> 0, input |-> <<>>,
   ret |-> None, allocs |-> 0, clones |-> 0]

\* The bag holding the container of a Some result, empty for None.
Held(ret) == IF ret.tag = "Some" THEN SetToBag({ret.val[1]}) ELSE EmptyBag

Init ==
  /\ heap = [p \in Ptrs |-> Free]
  /\ vecs = {}
  /\ nonEmpties = EmptyBag
  /\ call = NoCall

\* The caller builds a Vec<T> of len elements with capacity cap.
VecNew ==
  \E len \in 0..MaxLen : \E cap \in len..MaxLen : \E xs \in [1..len -> T] :
    /\ IF cap = 0
       THEN /\ heap' = heap
            /\ vecs' = vecs \cup {MkVec(Dangling, 0, 0)}
       ELSE \E a \in alloc(heap, cap) :
              /\ heap' = [a.heap EXCEPT ![a.ptr].cells = xs]
              /\ vecs' = vecs \cup {MkVec(a.ptr, cap, len)}
    /\ UNCHANGED nonEmpties
    /\ call' = NoCall

\* The caller overwrites an element of a Vec it owns.
VecWrite ==
  \E vec \in vecs : \E i \in 1..vec.len : \E x \in T :
    /\ heap[vec.ptr].cells[i] # x
    /\ heap' = [heap EXCEPT ![vec.ptr].cells[i] = x]
    /\ UNCHANGED <<vecs, nonEmpties>>
    /\ call' = NoCall

\* The caller drops a Vec it owns.
VecDrop ==
  \E vec \in vecs :
    /\ heap' = drop(heap, vec)
    /\ vecs' = vecs \ {vec}
    /\ UNCHANGED nonEmpties
    /\ call' = NoCall

\* The caller drops a NonEmpty it holds: the wrapped Vec is dropped with it.
NonEmptyDrop ==
  \E c \in BagToSet(nonEmpties) :
    /\ heap' = drop(heap, c[1])
    /\ nonEmpties' = nonEmpties (-) SetToBag({c})
    /\ UNCHANGED vecs
    /\ call' = NoCall

\* NonEmpty::from_vec(vec): the Vec is moved out of the caller's hands.
CallFromVec ==
  \E vec \in vecs : \E o \in from_vec(Fx(heap), vec) :
    /\ heap' = o.m.heap
    /\ vecs' = vecs \ {vec}
    /\ nonEmpties' = nonEmpties (+) Held(o.ret)
    /\ call' = [fn |-> "from_vec", arg |-> MkSlice(vec.ptr, 0, vec.len), cap |-> vec.cap,
                input |-> VecElems(heap, vec), ret |-> o.ret,
                allocs |-> o.m.allocs, clones |-> o.m.clones]

\* NonEmpty::from_slice(&vec[lo..hi]): the caller keeps the Vec the view borrows from.
CallFromSlice ==
  \E vec \in vecs : \E slice \in ViewsOf(vec) : \E o \in from_slice(Fx(heap), slice) :
      /\ heap' = o.m.heap
      /\ UNCHANGED vecs
      /\ nonEmpties' = nonEmpties (+) Held(o.ret)
      /\ call' = [fn |-> "from_slice", arg |-> slice, cap |-> vec.cap,
                  input |-> SliceElems(heap, slice), ret |-> o.ret,
                  allocs |-> o.m.allocs, clones |-> o.m.clones]

Next ==
  \/ VecNew
  \/ VecWrite
  \/ VecDrop
  \/ NonEmptyDrop
  \/ CallFromVec
  \/ CallFromSlice

Spec == Init /\ [][Next]_vars

----------------------------------------------------------------------------
(* Properties                                                              *)

\* The containers the caller holds.
Containers == BagToSet(nonEmpties)

Returned == call.fn \in {"from_vec", "from_slice"}

\* The container of a Some result.
Built == call.ret.val[1]

\* The caller's Vec that owns the buffer at address p, if any.
OwnersOf(p) == {v \in vecs : v.cap > 0 /\ v.ptr = p}

\* Every view the caller can take of a Vec it owns.
Views == UNION {ViewsOf(v) : v \in vecs}

\* What a caller observes of a set of outcomes: the tag and the contents.
Results(outs) ==
  {[tag   |-> o.ret.tag,
    elems |-> IF o.ret.tag = "Some" THEN VecElems(o.m.heap, o.ret.val[1][1]) ELSE <<>>]
   : o \in outs}

\* C1: an input of length 0 makes either constructor return None -- the call has an
\* outcome (no panic, no abort), that outcome is None, and no container comes of it.
C1_EmptyGivesNone ==
  /\ (Returned /\ call.arg.len = 0) => call.ret = None
  /\ \A v \in vecs : is_empty(v) =>
       /\ from_vec(Fx(heap), v) # {}
       /\ \A o \in from_vec(Fx(heap), v) : o.ret = None
  /\ \A s \in Views : is_empty(s) =>
       /\ from_slice(Fx(heap), s) # {}
       /\ \A o \in from_slice(Fx(heap), s) : o.ret = None

C1_Witness ==
  /\ call.fn = "from_slice"
  /\ call.arg.len = 0
  /\ call.ret = None
  /\ \E v \in vecs : v.ptr = call.arg.ptr /\ v.len > 0

\* C2: an input of length n >= 1 makes either constructor return Some(container)
\* whose length is n and whose element at every index is the input's element there.
C2_SomeSameElements ==
  (Returned /\ call.arg.len >= 1) =>
    /\ call.ret.tag = "Some"
    /\ Built[1].len = call.arg.len
    /\ \A i \in 1..call.arg.len : VecElems(heap, Built[1])[i] = call.input[i]

C2_Witness ==
  /\ call.fn = "from_slice"
  /\ call.ret.tag = "Some"
  /\ call.arg.len = 2
  /\ call.input[1] # call.input[2]

\* C3: every NonEmpty that exists has length >= 1, and a NonEmpty only ever comes
\* into existence as the Some result of from_vec or from_slice.
C3_NeverEmpty ==
  /\ [](\A c \in Containers : c[1].len >= 1)
  /\ [][\A c \in BagToSet(nonEmpties') :
          CopiesIn(c, nonEmpties') > CopiesIn(c, nonEmpties) =>
            /\ call'.fn \in {"from_vec", "from_slice"}
            /\ call'.ret = Some(c)]_vars

C3_Witness ==
  /\ Returned
  /\ call.arg.len = 0
  /\ call.ret = None
  /\ Containers # {}

\* C4: from_vec on a non-empty input clones no element and allocates nothing; the
\* container's Vec is the input Vec (same buffer, capacity and length), and the caller
\* no longer owns that buffer.
C4_FromVecMoves ==
  (call.fn = "from_vec" /\ call.arg.len >= 1) =>
    /\ call.ret.tag = "Some"
    /\ call.clones = 0
    /\ call.allocs = 0
    /\ Built[1] = MkVec(call.arg.ptr, call.cap, call.arg.len)
    /\ heap[call.arg.ptr].live
    /\ OwnersOf(call.arg.ptr) = {}

C4_Witness ==
  /\ call.fn = "from_vec"
  /\ call.ret.tag = "Some"
  /\ call.arg.len = 2
  /\ call.cap = 2

\* C5: from_slice on a non-empty view returns a container whose buffer was not
\* allocated before the call and is not the view's buffer, and no later step of the
\* caller -- a write to the source storage in particular -- changes the elements of
\* a container that stays alive.
C5_FromSliceIndependent ==
  /\ [][(call'.fn = "from_slice" /\ call'.ret.tag = "Some") =>
          /\ ~heap[call'.ret.val[1][1].ptr].live
          /\ heap'[call'.ret.val[1][1].ptr].live
          /\ call'.ret.val[1][1].ptr # call'.arg.ptr]_vars
  /\ [][\A c \in Containers :
          (CopiesIn(c, nonEmpties') >= CopiesIn(c, nonEmpties)) =>
             VecElems(heap', c[1]) = VecElems(heap, c[1])]_vars

C5_Witness ==
  /\ call.fn = "from_slice"
  /\ call.ret.tag = "Some"
  /\ call.arg.len = 2
  /\ OwnersOf(call.arg.ptr) # {}

\* C6: from_slice leaves its view as it was (same length, same element at every
\* index, still owned by the caller); on a view of length n >= 1 it makes exactly one
\* allocation and exactly n clones, and on an empty view it makes none.
C6_FromSliceEffects ==
  (call.fn = "from_slice") =>
    /\ \E v \in vecs : v.ptr = call.arg.ptr /\ v.cap = call.cap
                       /\ call.arg.off + call.arg.len <= v.len
    /\ SliceElems(heap, call.arg) = call.input
    /\ (call.arg.len >= 1) => (call.allocs = 1 /\ call.clones = call.arg.len)
    /\ (call.arg.len = 0) => (call.allocs = 0 /\ call.clones = 0)

C6_Witness ==
  /\ call.fn = "from_slice"
  /\ call.arg.off = 1
  /\ call.arg.len = 1
  /\ call.ret.tag = "Some"

\* C7: from_vec on an empty Vec consumes it: the result is None with nothing in it,
\* the Vec's buffer (if it had one) has been released, and the caller owns it no more.
C7_RejectedInputDropped ==
  (call.fn = "from_vec" /\ call.arg.len = 0) =>
    /\ call.ret.tag = "None"
    /\ call.ret.val = <<>>
    /\ MkVec(call.arg.ptr, call.cap, 0) \notin vecs
    /\ (call.cap > 0) => ~heap[call.arg.ptr].live

C7_Witness ==
  /\ call.fn = "from_vec"
  /\ call.arg.len = 0
  /\ call.cap > 0
  /\ call.ret = None

\* C8: every live container owns a live buffer that no other container and no Vec
\* still held by the caller owns.
C8_NoSharedStorage ==
  \A c \in Containers :
    /\ CopiesIn(c, nonEmpties) = 1
    /\ heap[c[1].ptr].live
    /\ \A d \in Containers : d # c => d[1].ptr # c[1].ptr
    /\ OwnersOf(c[1].ptr) = {}

C8_Witness ==
  /\ call.fn = "from_slice"
  /\ \E v \in vecs : \E c, d \in Containers :
       /\ c # d
       /\ v.ptr = call.arg.ptr
       /\ v.len >= 1
       /\ VecElems(heap, c[1]) = VecElems(heap, v)
       /\ VecElems(heap, d[1]) = VecElems(heap, v)

\* C9: a NonEmpty is its one Vec and nothing else, and all its elements, the first
\* included, are the cells 0..n-1 of that Vec's single buffer.
C9_OneContiguousBuffer ==
  /\ \A c \in Containers :
       /\ Len(c) = 1
       /\ DOMAIN c[1] = {"ptr", "cap", "len"}
       /\ heap[c[1].ptr].live
       /\ heap[c[1].ptr].size = c[1].cap
       /\ Len(heap[c[1].ptr].cells) = c[1].len
  /\ (Returned /\ call.ret.tag = "Some") =>
       /\ Len(Built) = 1
       /\ heap[Built[1].ptr].cells = call.input

C9_Witness ==
  /\ Returned
  /\ call.ret.tag = "Some"
  /\ call.arg.len = 2
  /\ Cardinality(Containers) = 2

\* C10: what a constructor returns depends on the input's elements alone: calls on
\* inputs with equal element sequences give the same tag and the same contents,
\* whatever the address, offset or capacity of the input and whatever address the
\* allocator picks, and the result is Some exactly when the input has length >= 1.
C10_Deterministic ==
  /\ \A v, w \in vecs :
       VecElems(heap, v) = VecElems(heap, w) =>
         Cardinality(Results(from_vec(Fx(heap), v)) \cup Results(from_vec(Fx(heap), w))) <= 1
  /\ \A s, t \in Views :
       SliceElems(heap, s) = SliceElems(heap, t) =>
         Cardinality(Results(from_slice(Fx(heap), s))
                       \cup Results(from_slice(Fx(heap), t))) <= 1
  /\ \A v \in vecs : \A r \in Results(from_vec(Fx(heap), v)) :
       (r.tag = "Some") <=> (v.len >= 1)
  /\ \A s \in Views : \A r \in Results(from_slice(Fx(heap), s)) :
       (r.tag = "Some") <=> (s.len >= 1)
  /\ Returned => ((call.ret.tag = "Some") <=> (call.arg.len >= 1))

C10_Witness ==
  /\ call.fn = "from_slice"
  /\ call.ret.tag = "Some"
  /\ \E v, w \in vecs :
       /\ v.ptr # w.ptr
       /\ v.cap # w.cap
       /\ v.len >= 1
       /\ VecElems(heap, v) = VecElems(heap, w)
       /\ VecElems(heap, v) = VecElems(heap, Built[1])

====
